---- MODULE Spec2Model ----
(***************************************************************************)
(* Model of the odds-label standardisation of the SportMonks loader:       *)
(* standardise_columns and odds_includes of src/PSQL.py, with the fuzzy    *)
(* variant of src/database/to_database.py.                                 *)
(*                                                                         *)
(* Python strings that the code inspects character by character (labels,   *)
(* team names, short codes, totals, bookmaker names) are sequences of      *)
(* one-character strings.  Strings that the code only stores (the price    *)
(* in "value") are plain TLA+ strings.                                     *)
(***************************************************************************)
EXTENDS Integers, Sequences, FiniteSets, TLC

(***************************************************************************)
(* Python str methods used by the code.                                    *)
(***************************************************************************)
Whitespace == {" "}

LowerCase == <<"a", "b", "c", "d", "e", "f", "g", "h", "i", "j", "k", "l", "m",
               "n", "o", "p", "q", "r", "s", "t", "u", "v", "w", "x", "y", "z">>

UpperCase == <<"A", "B", "C", "D", "E", "F", "G", "H", "I", "J", "K", "L", "M",
               "N", "O", "P", "Q", "R", "S", "T", "U", "V", "W", "X", "Y", "Z">>

\* c.upper() for one character
upper_char(c) ==
    IF \E n \in 1..26 : LowerCase[n] = c
    THEN UpperCase[CHOOSE n \in 1..26 : LowerCase[n] = c]
    ELSE c

\* s.upper()
upper(s) == [n \in 1..Len(s) |-> upper_char(s[n])]

\* t in s   (substring test; the empty string is in every string)
contains(s, t) ==
    \E n \in 0..(Len(s) - Len(t)) : SubSeq(s, n + 1, n + Len(t)) = t

\* s.replace(old, new): every non-overlapping occurrence, left to right;
\* an empty old inserts new before every character and at the end
RECURSIVE replace(_, _, _)
replace(s, old, new) ==
    IF old = <<>>
    THEN IF s = <<>> THEN new
         ELSE new \o <<Head(s)>> \o replace(Tail(s), old, new)
    ELSE IF Len(s) < Len(old) THEN s
    ELSE IF SubSeq(s, 1, Len(old)) = old
         THEN new \o replace(SubSeq(s, Len(old) + 1, Len(s)), old, new)
         ELSE <<Head(s)>> \o replace(Tail(s), old, new)

\* s.split(sep)[0] for a one-character sep
RECURSIVE split_first(_, _)
split_first(s, sep) ==
    IF s = <<>> \/ Head(s) = sep THEN <<>>
    ELSE <<Head(s)>> \o split_first(Tail(s), sep)

RECURSIVE lstrip(_)
lstrip(s) ==
    IF s # <<>> /\ Head(s) \in Whitespace THEN lstrip(Tail(s)) ELSE s

RECURSIVE rstrip(_)
rstrip(s) ==
    IF s # <<>> /\ s[Len(s)] \in Whitespace
    THEN rstrip(SubSeq(s, 1, Len(s) - 1)) ELSE s

\* s.strip()
strip(s) == rstrip(lstrip(s))

\* s.split(): the words of s, separated by runs of whitespace
RECURSIVE split(_)
split(s) ==
    LET t == lstrip(s)
        w == split_first(t, " ")
    IN  IF t = <<>> THEN <<>>
        ELSE <<w>> \o split(SubSeq(t, Len(w) + 1, Len(t)))

\* s.split(".") for a one-character separator: every field, empty ones too
RECURSIVE split_on(_, _)
split_on(s, sep) ==
    LET w == split_first(s, sep)
    IN  IF Len(w) = Len(s) THEN <<w>>
        ELSE <<w>> \o split_on(SubSeq(s, Len(w) + 2, Len(s)), sep)

Min3(a, b, c) ==
    IF a <= b /\ a <= c THEN a ELSE IF b <= c THEN b ELSE c

\* one row of the edit-distance table: cur[0] = prev[0] + 1,
\* cur[j] = min(insertion, deletion, substitution)
RECURSIVE lev_row(_, _, _, _)
lev_row(prev, c, b, cur) ==
    LET j == Len(cur)
    IN  IF j > Len(b) THEN cur
        ELSE lev_row(prev, c, b,
                 Append(cur, Min3(prev[j + 1] + 1, cur[j] + 1,
                                  prev[j] + (IF c = b[j] THEN 0 ELSE 1))))

RECURSIVE lev_rows(_, _, _)
lev_rows(a, b, prev) ==
    IF a = <<>> THEN prev
    ELSE lev_rows(Tail(a), b, lev_row(prev, Head(a), b, <<prev[1] + 1>>))

\* enchant.utils.levenshtein(a, b): rows hold cur[0..Len(b)] at 1..Len(b)+1
levenshtein(a, b) ==
    lev_rows(a, b, [n \in 1..(Len(b) + 1) |-> n - 1])[Len(b) + 1]

(***************************************************************************)
(* String literals of the code.                                            *)
(***************************************************************************)
S_Home == <<"H", "o", "m", "e">>

S_Draw == <<"D", "r", "a", "w">>

S_Away == <<"A", "w", "a", "y">>

S_1 == <<"1">>

S_X == <<"X">>

S_2 == <<"2">>

S_Pipe == <<"|">>

S_Slash == <<"/">>

S_Space == <<" ">>

S_Empty == << >>

(***************************************************************************)
(* standardise_columns, src/PSQL.py.  An odds entry is a record            *)
(* [label, value, total]; the model adds two fields that the code does not *)
(* have: src, the position of the entry in the list that was passed in     *)
(* (the identity of the dict object), and steps, the resolution steps that *)
(* rewrote the entry, in the order they ran.                               *)
(***************************************************************************)
NULL == "None"

\* has_pipe taking "/" for a separator too
has_pipe_or_slash(label) == contains(label, S_Pipe) \/ contains(label, S_Slash)

has_pipe(label) == contains(label, S_Pipe)

\* label.split("|")[0].strip()
team_of(label) == strip(split_first(label, "|"))

\* bool_dict.get(team): truthy when team is in the home or in the away
\* name, and the key "Draw" is deleted
bool_dict(team, home, away) ==
    /\ team # S_Draw
    /\ contains(home, team) \/ contains(away, team)

\* transformed_response keeping only the entries that go to the front
RECURSIVE transformed_response_front(_, _, _, _)
transformed_response_front(response, home, away, acc) ==
    IF response = <<>> THEN acc
    ELSE LET k == Head(response)
         IN  transformed_response_front(Tail(response), home, away,
                 IF has_pipe(k.label) /\ bool_dict(team_of(k.label), home, away)
                 THEN <<k>> \o acc
                 ELSE acc)

\* lines 330-342: the entries whose token is in bool_dict go to the front
\* (insert(0, k)), the others are appended
RECURSIVE transformed_response(_, _, _, _)
transformed_response(response, home, away, acc) ==
    IF response = <<>> THEN acc
    ELSE LET k == Head(response)
         IN  transformed_response(Tail(response), home, away,
                 IF has_pipe(k.label) /\ bool_dict(team_of(k.label), home, away)
                 THEN <<k>> \o acc
                 ELSE Append(acc, k))

\* lines 344-350 and 460-465: only the first of Home, Draw, Away is replaced
home_draw_away(label) ==
    IF contains(label, S_Home) THEN replace(label, S_Home, S_1)
    ELSE IF contains(label, S_Draw) THEN replace(label, S_Draw, S_X)
    ELSE IF contains(label, S_Away) THEN replace(label, S_Away, S_2)
    ELSE label

\* final_label without the replacement of "|"
final_label_keeps_pipe(label) == replace(label, S_Space, S_Empty)

\* label.replace("|", "/").replace(" ", "")
final_label(label) == replace(replace(label, S_Pipe, S_Slash), S_Space, S_Empty)

\* j != i: Python compares dicts by content; an object equals itself
same_dict(a, b) ==
    a.label = b.label /\ a.value = b.value /\ a.total = b.total

rewrite(entry, label, step) ==
    [entry EXCEPT !.label = label, !.steps = Append(@, step)]

\* eliminate without the clean-up of the labels it rewrites (lines 374, 380)
eliminate_unfinished(tr, k, team, other, same) ==
    [j \in 1..Len(tr) |->
        IF ~has_pipe(tr[j].label) THEN tr[j]
        ELSE LET new_team == team_of(tr[j].label)
                 differs  == j # k /\ ~same_dict(tr[j], tr[k])
             IN  IF differs /\ new_team # S_X /\ team # new_team
                 THEN rewrite(tr[j], replace(tr[j].label, new_team, other),
                              "elim_other")
                 ELSE IF differs /\ team = new_team
                 THEN rewrite(tr[j], replace(tr[j].label, team, same),
                              "elim_same")
                 ELSE tr[j]]

\* lines 366-381 and 386-401: the loop over the other entries run by an
\* entry i (at position k, its label already rewritten) whose token team is
\* in a name; other is the digit of the opposite side, same the digit of i
eliminate(tr, k, team, other, same) ==
    [j \in 1..Len(tr) |->
        IF ~has_pipe(tr[j].label) THEN tr[j]
        ELSE LET new_team == team_of(tr[j].label)
                 differs  == j # k /\ ~same_dict(tr[j], tr[k])
             IN  IF differs /\ new_team # S_X /\ team # new_team
                 THEN rewrite(tr[j],
                          final_label(replace(tr[j].label, new_team, other)),
                          "elim_other")
                 ELSE IF differs /\ team = new_team
                 THEN rewrite(tr[j],
                          final_label(replace(tr[j].label, team, same)),
                          "elim_same")
                 ELSE tr[j]]

\* two_word_match asking for equal first words
two_word_match_equal(team, name) ==
    /\ Len(split(name)) > 1
    /\ split(team)[1] = split(name)[1]
    /\ split(team)[2][1] = split(name)[2][1]

\* lines 416-418 and 425-427: the two-word structural match against a name
two_word_match(team, name) ==
    /\ Len(split(name)) > 1
    /\ contains(split(name)[1], split(team)[1])
    /\ split(team)[2][1] = split(name)[2][1]

\* by_distance with ties going to home
by_distance_strict(team, home, away) ==
    IF levenshtein(team, home) > levenshtein(team, away) THEN S_2 ELSE S_1

\* lines 434-451: the edit-distance rule, ties go to away
by_distance(team, home, away) ==
    IF levenshtein(team, home) >= levenshtein(team, away) THEN S_2 ELSE S_1

\* acronym with the two short codes taken for each other
acronym_swapped(label, team, home_short, away_short) ==
    IF team = home_short THEN replace(label, team, S_2)
    ELSE IF team = away_short THEN replace(label, team, S_1)
    ELSE label

\* acronym with an unknown short code defaulting to away
acronym_defaults_away(label, team, home_short, away_short) ==
    IF team = home_short THEN replace(label, team, S_1)
    ELSE replace(label, team, S_2)

\* lines 405-413: an all-uppercase token is compared with the short codes;
\* one that equals neither leaves the label as it is
acronym(label, team, home_short, away_short) ==
    IF team = home_short THEN replace(label, team, S_1)
    ELSE IF team = away_short THEN replace(label, team, S_2)
    ELSE label

\* lines 357-454: one iteration of the resolution loop, for the entry at k
resolve(tr, k, home, away, home_short, away_short) ==
    LET i     == tr[k]
        label == i.label
        team  == team_of(label)
        done(l, step) == [tr EXCEPT ![k] = rewrite(i, final_label(l), step)]
    IN  IF ~has_pipe(label) THEN tr
        ELSE IF team = S_X THEN done(label, "X")
        ELSE IF contains(home, team) \/ contains(team, home)
        THEN LET t1 == [tr EXCEPT ![k].label = replace(label, team, S_1)]
                 t2 == eliminate(t1, k, team, S_2, S_1)
             IN  [t2 EXCEPT ![k] = rewrite(t2[k], final_label(t2[k].label), "home")]
        ELSE IF contains(away, team) \/ contains(team, away)
        THEN LET t1 == [tr EXCEPT ![k].label = replace(label, team, S_2)]
                 t2 == eliminate(t1, k, team, S_1, S_2)
             IN  [t2 EXCEPT ![k] = rewrite(t2[k], final_label(t2[k].label), "away")]
        ELSE IF upper(team) = team
        THEN done(acronym(label, team, home_short, away_short), "acronym")
        ELSE IF Len(split(team)) > 1
        THEN IF two_word_match(team, home)
             THEN done(replace(label, team, S_1), "two_word")
             ELSE IF two_word_match(team, away)
             THEN done(replace(label, team, S_2), "two_word")
             ELSE done(replace(label, team, by_distance(team, home, away)), "distance")
        ELSE done(replace(label, team, by_distance(team, home, away)), "distance")

\* lines 352-454: the resolution loop, in the order of transformed_response
RECURSIVE resolve_from(_, _, _, _, _, _)
resolve_from(tr, k, home, away, home_short, away_short) ==
    IF k > Len(tr) THEN tr
    ELSE resolve_from(resolve(tr, k, home, away, home_short, away_short),
                      k + 1, home, away, home_short, away_short)

\* lines 319-456: standardise_columns for a list
standardise_list(response, home, away, home_short, away_short) ==
    LET tr == transformed_response(response, home, away, <<>>)
        t1 == [n \in 1..Len(tr) |->
                  [tr[n] EXCEPT !.label = home_draw_away(@)]]
    IN  resolve_from(t1, 1, home, away, home_short, away_short)

\* lines 458-470: standardise_columns for a dict
standardise_dict(response) ==
    [response EXCEPT !.label = final_label(home_draw_away(@))]

\* to_database.py lines 307-328: the fuzzy variant of the list branch.
\* process.extractOne(label, [home, away, "X"]) is library code: pick maps
\* each token to the choice the library returns for it, any of the three.
home_away_draw(choice, home, away) ==
    IF choice = away THEN S_2 ELSE IF choice = S_X THEN S_X ELSE S_1

standardise_fuzzy(response, home, away, pick) ==
    [n \in 1..Len(response) |->
        LET l1 == home_draw_away(response[n].label)
            label == team_of(l1)
        IN  IF ~has_pipe(l1) THEN [response[n] EXCEPT !.label = l1]
            ELSE rewrite(response[n],
                     final_label(replace(l1, label,
                         home_away_draw(pick[label], home, away))),
                     "fuzzy")]

(***************************************************************************)
(* Inputs.  Two fixtures and, for each, the labels a bookmaker may send.   *)
(***************************************************************************)
MaxOdds == 2

N_ManUtd == <<"M", "a", "n", "c", "h", "e", "s", "t", "e", "r", " ", "U", "n", "i", "t", "e", "d">>

N_Chelsea == <<"C", "h", "e", "l", "s", "e", "a">>

N_MUN == <<"M", "U", "N">>

N_CHE == <<"C", "H", "E">>

N_RealMadrid == <<"R", "e", "a", "l", " ", "M", "a", "d", "r", "i", "d">>

N_RealSociedad == <<"R", "e", "a", "l", " ", "S", "o", "c", "i", "e", "d", "a", "d">>

N_RMA == <<"R", "M", "A">>

N_RSO == <<"R", "S", "O">>

N_RealMallorca == <<"R", "e", "a", "l", " ", "M", "a", "l", "l", "o", "r", "c", "a">>

N_MLL == <<"M", "L", "L">>

Fixtures ==
    { [home |-> N_ManUtd, away |-> N_Chelsea,
       home_short |-> N_MUN, away_short |-> N_CHE],
      [home |-> N_RealMadrid, away |-> N_RealSociedad,
       home_short |-> N_RMA, away_short |-> N_RSO],
      [home |-> N_RealMadrid, away |-> N_RealMallorca,
       home_short |-> N_RMA, away_short |-> N_MLL] }

LabelsManUtd ==
    { <<"M", "a", "n", "c", "h", "e", "s", "t", "e", "r", " ", "U", "n", "i", "t", "e", "d", " ", "|", " ", "Y", "e", "s">>,
      <<"M", "a", "n", "c", "h", "e", "s", "t", "e", "r", " ", "|", " ", "N", "o">>,
      <<"C", "h", "e", "l", "s", "e", "a", " ", "|", " ", "N", "o">>,
      <<"M", "U", "N", " ", "|", " ", "Y", "e", "s">>,
      <<"Q", "P", "R", " ", "|", " ", "N", "o">>,
      <<"X", " ", "|", " ", "Y", "e", "s">>,
      <<"M", "a", "n", " ", "U", "t", "d", " ", "|", " ", "Y", "e", "s">>,
      <<"C", "h", "e", "l", "s", "e", "y", " ", "|", " ", "N", "o">>,
      <<"M", "a", "n", "c", "h", "e", "s", "t", "e", "e", " ", "|", " ", "Y", "e", "s">>,
      <<"D", "r", "a", "w", " ", "|", " ", "Y", "e", "s">>,
      <<"2", " ", "|", " ", "N", "o">>,
      <<"H", "o", "m", "e">>,
      <<"H", "o", "m", "e", "/", "D", "r", "a", "w">>,
      <<"N", "o", " ", "G", "o", "a", "l">> }

LabelsReal ==
    { <<"R", "e", "a", "l", " ", "M", "a", "d", "r", "i", "d", " ", "|", " ", "Y", "e", "s">>,
      <<"R", "e", "a", "l", " ", "|", " ", "N", "o">>,
      <<"R", "e", "a", "l", " ", "S", "o", "c", "i", "e", "d", "a", "d", " ", "|", " ", "N", "o">>,
      <<"R", "e", "a", "l", " ", "S", "d", "a", "d", " ", "|", " ", "N", "o">>,
      <<"R", "S", "O", " ", "|", " ", "Y", "e", "s">>,
      <<"M", "a", "d", "r", "i", "d", "i", "s", "t", "a", " ", "|", " ", "Y", "e", "s">>,
      <<"D", "r", "a", "w", "/", "A", "w", "a", "y">>,
      <<"N", "o">>,
      <<"O", "v", "e", "r">> }

\* tokens of two words for two names that share the first word and the
\* first letter of the second, and a token that is in the away name
LabelsMallorca ==
    { <<"R", "e", "a", "l", " ", "M", "d", "r", "d", " ", "|", " ", "Y", "e", "s">>,
      <<"R", "e", "a", "l", " ", "M", "l", "l", "r", "c", "a", " ", "|", " ", "N", "o">>,
      <<"A", "t", "l", "e", "t", "i", "c", "o", " ", "M", "a", "d", "r", "i", "d", " ", "|", " ", "N", "o">>,
      <<"M", "a", "l", "l", "o", "r", "c", "a", " ", "|", " ", "N", "o">> }

Labels(f) ==
    IF f.home = N_ManUtd THEN LabelsManUtd
    ELSE IF f.away = N_RealSociedad THEN LabelsReal
    ELSE LabelsMallorca

Values == {"1.50", "2.10"}

Entry(l, v, t, n) ==
    [label |-> l, value |-> v, total |-> t, src |-> n, steps |-> << >>]

\* the odds lists of at most max entries over the labels ls and totals ts
OddsLists(es, max) ==
    UNION { { [n \in 1..len |-> Entry(c[n][1], c[n][2], c[n][3], n)] :
                c \in [1..len -> es] } : len \in 1..max }

(***************************************************************************)
(* odds_includes, src/PSQL.py lines 221-293.  A dict is the sequence of    *)
(* its [key, value] items in insertion order.                              *)
(***************************************************************************)
S_Yes == <<"Y", "e", "s">>

S_No == <<"N", "o">>

S_Over == <<"O", "v", "e", "r">>

S_Under == <<"U", "n", "d", "e", "r">>

S_Dot == <<".">>

S_5 == <<"5">>

S_Underscore == <<"_">>

K_id == <<"i", "d">>

K_market_id == <<"m", "a", "r", "k", "e", "t", "_", "i", "d">>

K_market == <<"m", "a", "r", "k", "e", "t">>

BTTS == 976105

OverUnder == 12

ResultBTTS == 976316

has_key(d, key) == \E n \in 1..Len(d) : d[n].key = key

\* d[key]
dict_get(d, key) == d[CHOOSE n \in 1..Len(d) : d[n].key = key].value

\* d[key] = value: a new key goes to the end, an old one keeps its place
dict_set(d, key, value) ==
    IF has_key(d, key)
    THEN [n \in 1..Len(d) |->
             IF d[n].key = key THEN [key |-> key, value |-> value] ELSE d[n]]
    ELSE Append(d, [key |-> key, value |-> value])

\* btts_rejected looking at the first label only
btts_rejected_first(actual_odds) ==
    actual_odds[1].label \notin {S_Yes, S_No}

\* line 252: any(n not in ["Yes", "No"] for n in labels)
btts_rejected(actual_odds) ==
    \E n \in 1..Len(actual_odds) : actual_odds[n].label \notin {S_Yes, S_No}

\* over_under_rejected with no filter at all
over_under_rejected_never(label) == FALSE

\* lines 257-258
over_under_rejected(label) == label \notin {S_Over, S_Under}

\* result_btts_rejected only when both parts are missing
result_btts_rejected_both(label) ==
    /\ \A x \in {S_Yes, S_No} : ~contains(label, x)
    /\ \A x \in {S_1, S_X, S_2} : ~contains(label, x)

\* lines 263-264
result_btts_rejected(label) ==
    \/ \A x \in {S_Yes, S_No} : ~contains(label, x)
    \/ \A x \in {S_1, S_X, S_2} : ~contains(label, x)

\* half_line accepting any decimal
half_line_any_decimal(total) == contains(total, S_Dot)

\* line 270
half_line(total) ==
    /\ contains(total, S_Dot)
    /\ split_on(total, ".")[2] = S_5

\* lines 256-277: the entry j of the bookmaker called name
add_column(d, name, j, market_id) ==
    IF market_id = OverUnder /\ over_under_rejected(j.label) THEN d
    ELSE IF market_id = ResultBTTS /\ result_btts_rejected(j.label) THEN d
    ELSE IF j.total # NULL
    THEN IF half_line(j.total)
         THEN dict_set(d, name \o S_Underscore \o j.label \o j.total, j.value)
         ELSE d
    ELSE dict_set(d, name \o S_Underscore \o j.label, j.value)

RECURSIVE add_columns(_, _, _, _)
add_columns(d, name, actual_odds, market_id) ==
    IF actual_odds = << >> THEN d
    ELSE add_columns(add_column(d, name, Head(actual_odds), market_id),
                     name, Tail(actual_odds), market_id)

\* lines 240-277: one bookmaker i of a market
add_bookmaker(d, i, market_id, fixt) ==
    LET actual_odds == standardise_list(i.odds,
                           fixt.localTeam.name, fixt.visitorTeam.name,
                           fixt.localTeam.short_code, fixt.visitorTeam.short_code)
    IN  IF market_id = BTTS /\ btts_rejected(actual_odds) THEN d
        ELSE add_columns(d, i.name, actual_odds, market_id)

RECURSIVE add_bookmakers(_, _, _, _)
add_bookmakers(d, bookmaker, market_id, fixt) ==
    IF bookmaker = << >> THEN d
    ELSE add_bookmakers(add_bookmaker(d, Head(bookmaker), market_id, fixt),
                        Tail(bookmaker), market_id, fixt)

\* lines 235-277: the row of one market of one fixture
fixture_odds_dict(fixt, market) ==
    add_bookmakers(<<[key |-> K_id, value |-> fixt.id],
                     [key |-> K_market_id, value |-> market.id],
                     [key |-> K_market, value |-> market.name]>>,
                   market.bookmaker, market.id, fixt)

\* lines 227-277: the rows of all markets of all fixtures, in loop order;
\* a fixture whose odds are [] is skipped
RECURSIVE all_rows(_)
all_rows(to_process) ==
    IF to_process = << >> THEN << >>
    ELSE LET fixt == Head(to_process)
         IN  [n \in 1..Len(fixt.odds) |-> fixture_odds_dict(fixt, fixt.odds[n])]
             \o all_rows(Tail(to_process))

\* lines 279-281: the rows that go to the list of the requested market z0
RECURSIVE rows_of_market(_, _)
rows_of_market(rs, z0) ==
    IF rs = << >> THEN << >>
    ELSE (IF z0 = dict_get(Head(rs), K_market_id) /\ Len(Head(rs)) # 3
          THEN <<Head(rs)>> ELSE << >>)
         \o rows_of_market(Tail(rs), z0)

\* odds_list keeping the rows that hold no odds column
odds_list_all(rs, mkts) ==
    [p \in 1..Len(mkts) |->
        SelectSeq(rs, LAMBDA r : dict_get(r, K_market_id) = mkts[p])]

\* lines 221-223 and 279-285: odds_list without the leading market ids
odds_list(rs, mkts) ==
    [p \in 1..Len(mkts) |-> rows_of_market(rs, mkts[p])]

\* lines 284-291: the calls of to_psql, in order
RECURSIVE to_psql_calls(_, _)
to_psql_calls(ol, table) ==
    IF ol = << >> THEN << >>
    ELSE (IF Len(Head(ol)) # 0
          THEN <<[response |-> Head(ol),
                  table |-> table \o S_Underscore
                            \o replace(dict_get(Head(ol)[1], K_market),
                                       S_Space, S_Underscore)]>>
          ELSE << >>)
         \o to_psql_calls(Tail(ol), table)

M_BTTS == <<"B", "o", "t", "h", " ", "T", "e", "a", "m", "s", " ", "T", "o", " ", "S", "c", "o", "r", "e">>

M_OverUnder == <<"O", "v", "e", "r", "/", "U", "n", "d", "e", "r">>

M_ResultBTTS == <<"R", "e", "s", "u", "l", "t", "/", "B", "o", "t", "h", " ", "T", "e", "a", "m", "s", " ", "T", "o", " ", "S", "c", "o", "r", "e">>

M_3Way == <<"3", "W", "a", "y", " ", "R", "e", "s", "u", "l", "t">>

B_bet365 == <<"b", "e", "t", "3", "6", "5">>

B_1xbet == <<"1", "x", "b", "e", "t">>

T_EPL == <<"E", "P", "L">>

L_Maybe == <<"M", "a", "y", "b", "e">>

L_Exactly == <<"E", "x", "a", "c", "t", "l", "y">>

L_ManUtdYes == <<"M", "a", "n", "c", "h", "e", "s", "t", "e", "r", " ", "U", "n", "i", "t", "e", "d", " ", "|", " ", "Y", "e", "s">>

L_ChelseaNo == <<"C", "h", "e", "l", "s", "e", "a", " ", "|", " ", "N", "o">>

L_1Yes == <<"1", "/", "Y", "e", "s">>

T_25 == <<"2", ".", "5">>

T_20 == <<"2", ".", "0">>

ThreeWay == 1

MarketIds == {BTTS, OverUnder, ResultBTTS, ThreeWay}

MarketName(id) ==
    IF id = BTTS THEN M_BTTS
    ELSE IF id = OverUnder THEN M_OverUnder
    ELSE IF id = ResultBTTS THEN M_ResultBTTS
    ELSE M_3Way

\* the entries <<label, value, total>> a bookmaker may send for a market
MarketEntries(id) ==
    IF id = BTTS
    THEN { <<S_Yes, "1.50", NULL>>, <<S_No, "2.10", NULL>>,
           <<L_Maybe, "1.50", NULL>> }
    ELSE IF id = OverUnder
    THEN { <<S_Over, "1.50", T_25>>, <<S_Under, "2.10", T_25>>,
           <<S_Over, "2.10", T_20>>, <<L_Exactly, "1.50", NULL>> }
    ELSE IF id = ResultBTTS
    THEN { <<L_ManUtdYes, "1.50", NULL>>, <<L_ChelseaNo, "1.50", NULL>>,
           <<L_1Yes, "2.10", NULL>>, <<S_Yes, "1.50", NULL>> }
    ELSE { <<S_Home, "1.50", NULL>>, <<S_Draw, "1.50", NULL>>,
           <<S_1, "2.10", NULL>> }

\* one bookmaker, or the two of them
Bookmakers(id) ==
    LET lists == OddsLists(MarketEntries(id), MaxOdds)
        bm(name, odds) == [name |-> name, odds |-> odds]
    IN  { <<bm(n, o)>> : n \in {B_bet365, B_1xbet}, o \in lists }
        \cup { <<bm(B_bet365, o1), bm(B_1xbet, o2)>> : o1 \in lists, o2 \in lists }

Markets ==
    UNION { { [id |-> id, name |-> MarketName(id), bookmaker |-> b] :
                b \in Bookmakers(id) } : id \in MarketIds }

Fixture(odds) ==
    [id |-> 1,
     localTeam |-> [name |-> N_ManUtd, short_code |-> N_MUN],
     visitorTeam |-> [name |-> N_Chelsea, short_code |-> N_CHE],
     odds |-> odds]

\* the market ids a caller asks for; run.py asks for 976105 twice
RequestedMarkets ==
    { <<BTTS>>, <<OverUnder, ResultBTTS>>, <<ThreeWay, BTTS, ResultBTTS, BTTS>> }

(***************************************************************************)
(* BaseAPI.make_request, src/base.py lines 171-263.  A Python value is a   *)
(* record [t, v] of its type and content; a dict is, as above, the         *)
(* sequence of its [key, value] items in insertion order.                  *)
(***************************************************************************)
PyStr(s) == [t |-> "str", v |-> s]

PyInt(n) == [t |-> "int", v |-> n]

PyList(l) == [t |-> "list", v |-> l]

PyDict(d) == [t |-> "dict", v |-> d]

None == [t |-> "NoneType", v |-> << >>]

\* the key is not in the JSON object
Absent == [t |-> "absent", v |-> << >>]

Item(k, val) == [key |-> k, value |-> val]

\* truthy taking every value but None for true
truthy_not_none(x) == x.t \notin {"NoneType", "absent"}

\* bool(x) for the values above
truthy(x) ==
    IF x.t \in {"NoneType", "absent"} THEN FALSE
    ELSE IF x.t = "int" THEN x.v # 0
    ELSE IF x.t = "str" THEN x.v # ""
    ELSE x.v # << >>

\* sep.join(list)
RECURSIVE join(_, _)
join(list, sep) ==
    IF list = << >> THEN ""
    ELSE IF Len(list) = 1 THEN list[1]
    ELSE list[1] \o sep \o join(Tail(list), sep)

\* d.update(e)
RECURSIVE dict_update(_, _)
dict_update(d, e) ==
    IF e = << >> THEN d
    ELSE dict_update(dict_set(d, Head(e).key, Head(e).value), Tail(e))

\* line 34
BaseURL == "https://soccer.sportmonks.com/api/v2.0/"

\* lines 142-149; the parts of an endpoint are modelled after str()
create_api_url(endpoint) ==
    BaseURL \o join(IF endpoint.t = "str" THEN <<endpoint.v>> ELSE endpoint.v,
                    "/")

\* lines 152-158
process_includes(includes) ==
    join(IF includes.t = "str" THEN <<includes.v>> ELSE includes.v, ",")

\* lines 161-169
process_params(params) ==
    [n \in 1..Len(params) |->
        IF params[n].value.t = "list"
        THEN Item(params[n].key, PyStr(join(params[n].value.v, ",")))
        ELSE params[n]]

\* lines 179-194: the dict that goes with the GETs; without params it is
\* the object self.initial_params itself, so what is written to it stays
build_params(initial, a) ==
    LET aliased == ~truthy(a.params)
        p1 == IF truthy(a.params)
              THEN dict_update(process_params(a.params.v), initial)
              ELSE initial
        p2 == IF truthy(a.filters)
              THEN dict_update(p1, process_params(a.filters.v))
              ELSE p1
        p3 == IF truthy(a.includes)
              THEN dict_set(p2, "include", PyStr(process_includes(a.includes)))
              ELSE p2
        p4 == IF ~has_key(p3, "page") THEN dict_set(p3, "page", PyInt(1)) ELSE p3
    IN  [params |-> p4, aliased |-> aliased]

\* lines 224-236: the exception raised for a status code, NULL for none
status_exception(status_code) ==
    IF status_code = 400 THEN "BadRequest"
    ELSE IF status_code = 401 THEN "UnathourizedRequest"
    ELSE IF status_code = 403 THEN "APIPermissionError"
    ELSE IF status_code = 404 THEN "APINotFound"
    ELSE IF status_code = 429 THEN "TooManyRequests"
    ELSE IF status_code \in {500, 502, 503, 504} THEN "ServerErrors"
    ELSE NULL

\* unnest_includes leaving the content of a 'data' as it is
unnest_includes_shallow(dictionary) ==
    PyDict([n \in 1..Len(dictionary.v) |->
        LET item == dictionary.v[n]
            val == item.value
        IN  IF val.t = "dict" /\ Len(val.v) = 1 /\ val.v[1].key = "data"
            THEN Item(item.key, val.v[1].value)
            ELSE item])

\* lines 90-140
RECURSIVE unnest_includes(_)
unnest_includes(dictionary) ==
    PyDict([n \in 1..Len(dictionary.v) |->
        LET item == dictionary.v[n]
            val == item.value
        IN  IF val.t = "dict" /\ Len(val.v) = 1 /\ val.v[1].key = "data"
            THEN LET data == val.v[1].value
                 IN  Item(item.key,
                        IF data.t = "list"
                        THEN PyList([i \in 1..Len(data.v) |->
                                 IF data.v[i].t = "dict"
                                 THEN unnest_includes(data.v[i])
                                 ELSE data.v[i]])
                        ELSE IF data.t = "dict" THEN unnest_includes(data)
                        ELSE data)
            ELSE item])

\* finish handing the data back as it came
finish_raw(data) ==
    IF data.t \in {"dict", "list"}
    THEN [raised |-> NULL, returned |-> data]
    ELSE [raised |-> "TypeError", returned |-> Absent]

\* lines 256-261: what make_request ends with for the collected data
finish(data) ==
    IF data.t = "dict"
    THEN [raised |-> NULL, returned |-> unnest_includes(data)]
    ELSE IF data.t = "list"
    THEN [raised |-> NULL,
          returned |-> PyList([i \in 1..Len(data.v) |->
                                unnest_includes(data.v[i])])]
    ELSE [raised |-> "TypeError", returned |-> Absent]

\* lines 273-280: the scan of the keys of one dict. The call of line 278 on
\* a dict value returns into nothing, so only the values of the dict itself
\* decide the answer
is_normalizable(response) ==
    \A n \in 1..Len(response.v) : response.v[n].value.t # "list"

\* pandas.json_normalize on one dict: a nested dict becomes columns named
\* by the path of keys joined with '.', every other value is one cell
RECURSIVE flatten(_, _)
flatten(prefix, dictionary) ==
    LET column(n) ==
            LET item == dictionary.v[n]
                name == IF prefix = "" THEN item.key
                        ELSE prefix \o "." \o item.key
            IN  IF item.value.t = "dict" /\ item.value.v # << >>
                THEN flatten(name, item.value)
                ELSE <<Item(name, item.value)>>
        cols[n \in 0..Len(dictionary.v)] ==
            IF n = 0 THEN << >> ELSE cols[n - 1] \o column(n)
    IN  cols[Len(dictionary.v)]

\* line 295: the frame has one row for a dict and one row for each dict of
\* a list
json_normalize(response) ==
    [t |-> "DataFrame",
     v |-> IF response.t = "dict" THEN <<flatten("", response)>>
           ELSE [i \in 1..Len(response.v) |-> flatten("", response.v[i])]]

\* lines 283-308 without cols: the exception raised, or the frame returned
to_df(response) ==
    IF response.t = "dict" /\ ~is_normalizable(response)
    THEN [raised |-> "NotJSONNormalizable", returned |-> Absent]
    ELSE IF response.t = "list"
            /\ \E i \in 1..Len(response.v) : ~is_normalizable(response.v[i])
    THEN [raised |-> "NotJSONNormalizable", returned |-> Absent]
    ELSE [raised |-> NULL, returned |-> json_normalize(response)]

\* the calls made on one client
MaxCalls == 2

\* the largest total_pages the server announces
MaxPages == 2

StatusCodes == {200, 400, 401, 403, 404, 422, 429, 500, 502, 503, 504}

D_foo == PyDict(<<Item("foo", PyStr("bar"))>>)

D_fixture ==
    PyDict(<<Item("id", PyInt(1)),
           Item("season", PyDict(<<Item("data", PyDict(<<Item("id", PyInt(2))>>))>>))>>)

E_message == PyDict(<<Item("message", PyStr("Unauthenticated."))>>)

DataValues ==
    { Absent, None, PyList(<< >>), D_foo, D_fixture, PyList(<<D_fixture>>),
      PyStr("ok") }

Pagination(n) ==
    PyDict(<<Item("pagination", PyDict(<<Item("total_pages", PyInt(n))>>))>>)

MetaValues ==
    { Absent, PyDict(<<Item("plan", PyStr("Free"))>>) }
        \cup { Pagination(n) : n \in 1..MaxPages }

Response(status_code, decodable, error, data, meta) ==
    [status_code |-> status_code, decodable |-> decodable,
     error |-> error, data |-> data, meta |-> meta]

NoResponse == Response(0, FALSE, Absent, Absent, Absent)

\* what the server may answer to the first GET
FirstResponses ==
    { Response(s, FALSE, Absent, Absent, Absent) : s \in {200, 502} }
    \cup { Response(s, TRUE, e, D_foo, Absent) :
             s \in StatusCodes, e \in {E_message, D_foo} }
    \cup { Response(s, TRUE, E_message, Absent, Absent) : s \in {200, 422} }
    \cup { Response(200, TRUE, Absent, d, Absent) : d \in DataValues }
    \cup { Response(200, TRUE, Absent, d, m) :
             d \in {D_foo, PyList(<<D_fixture>>)}, m \in MetaValues }
    \cup { Response(404, TRUE, Absent, d, Absent) : d \in {Absent, D_foo} }

\* what the server may answer to the GET of a further page
PageResponses ==
    { Response(502, FALSE, Absent, Absent, Absent),
      Response(429, TRUE, E_message, Absent, Absent) }
    \cup { Response(200, TRUE, Absent, d, Pagination(MaxPages)) :
             d \in { Absent, PyList(<< >>), PyList(<<D_foo>>) } }

\* the arguments of a call
Args ==
    [endpoint : { PyStr("foo"), PyList(<<"fixtures", "between">>) },
     includes : { None, PyStr("foo"), PyList(<<"odds", "lineup">>) },
     params   : { None, PyDict(<<Item("page", PyInt(2))>>) },
     filters  : { None, PyDict(<<Item("bookmakers", PyList(<<"2", "9">>))>>) }]

NoArgs ==
    [endpoint |-> None, includes |-> None, params |-> None, filters |-> None]

\* line 244
paginated(resp) ==
    /\ resp.meta # Absent
    /\ has_key(resp.meta.v, "pagination")

\* total_pages_of leaving out the last page
total_pages_but_one(resp) ==
    dict_get(dict_get(resp.meta.v, "pagination").v, "total_pages").v - 1

\* line 245
total_pages_of(resp) ==
    dict_get(dict_get(resp.meta.v, "pagination").v, "total_pages").v

\* the depth of the values a key of a document holds
MaxNest == 4

\* an include as the API sends it
Wrap(x) == PyDict(<<Item("data", x)>>)

Leaves == { PyInt(1), None }

\* the values of a key: a leaf, an include, a list, a dict, and a dict that
\* has 'data' among other keys
RECURSIVE Nested(_)
Nested(depth) ==
    IF depth = 0 THEN Leaves
    ELSE LET below == Nested(depth - 1)
         IN  below
             \cup { Wrap(x) : x \in below }
             \cup { PyList(<<x>>) : x \in below }
             \cup { PyDict(<<Item("id", x)>>) : x \in below }
             \cup { PyDict(<<Item("data", x), Item("meta", None)>>) :
                      x \in below }

\* {"hi": {"data": [1, 2]}} of test_unnest
D_hi == PyDict(<<Item("hi", Wrap(PyList(<<PyInt(1), PyInt(2)>>)))>>)

\* the dicts handed to unnest_includes and to _to_df
Dicts ==
    { PyDict(<<Item("id", PyInt(1)), Item("hi", x)>>) : x \in Nested(MaxNest) }
    \cup { PyDict(<<Item("hi", x)>>) : x \in Nested(MaxNest) }
    \cup { D_hi }

\* the responses handed to _to_df: a dict, or a list of dicts
Documents ==
    Dicts \cup { PyList(<<D_foo, d>>) : d \in Dicts }

(***************************************************************************)
(* One call of standardise_columns.                                        *)
(***************************************************************************)
VARIABLES variant, home, away, home_short, away_short, response, pick,
          result, second, pc,
          fixtures, markets, rows, stored,
          initial_params, timeout, calls, args, params, aliased, gets, reply,
          replies, data, page, total_pages, raised, returned,
          document

sc_vars == <<variant, home, away, home_short, away_short, response, pick,
             result, second>>

oi_vars == <<fixtures, markets, rows, stored>>

api_vars == <<initial_params, timeout, calls, args, params, aliased, gets, reply,
              replies, data, page, total_pages, raised, returned>>

\* no BaseAPI client is in use
NoClient ==
    /\ initial_params = << >> /\ timeout = None /\ calls = 0
    /\ args = NoArgs /\ params = << >> /\ aliased = FALSE /\ gets = << >>
    /\ reply = NoResponse /\ replies = << >>
    /\ data = None /\ page = 0 /\ total_pages = 0
    /\ raised = NULL /\ returned = Absent
    /\ document = None

js_vars == <<document>>

vars == <<sc_vars, pc, oi_vars, api_vars, js_vars>>

\* the entries of a list: the price is read only where two '|' entries are
\* compared (PSQL.py lines 369-396)
Entries(f, v) ==
    { e \in Labels(f) \X Values \X {NULL} :
        e[2] = "1.50" \/ (v = "PSQL" /\ has_pipe(e[1])) }
    \cup IF f.away = N_RealMallorca THEN { <<S_Over, "1.50", T_25>> } ELSE { }

Tokens(r) == { team_of(home_draw_away(r[n].label)) : n \in 1..Len(r) }

Init ==
    /\ variant \in {"PSQL", "to_database"}
    /\ \E f \in Fixtures :
          /\ home = f.home /\ away = f.away
          /\ home_short = f.home_short /\ away_short = f.away_short
          /\ \/ /\ \E r \in OddsLists(Entries(f, variant), MaxOdds) :
                      response = [kind |-> "list", items |-> r]
             \/ /\ \E l \in Labels(f) :
                      response = [kind |-> "dict",
                                  items |-> <<Entry(l, "1.50", NULL, 1)>>]
             \/ /\ response \in { [kind |-> k, items |-> << >>] :
                                     k \in {"NoneType", "str"} }
             \/ /\ \E l \in Labels(f) :
                      response = [kind |-> "tuple",
                                  items |-> <<Entry(l, "1.50", NULL, 1)>>]
    /\ pick = << >>
    /\ result = << >>
    /\ second = << >>
    /\ pc = "call"
    /\ fixtures = << >> /\ markets = << >> /\ rows = << >> /\ stored = << >>
    /\ NoClient

\* PSQL.py lines 319-456
StandardiseList ==
    /\ pc = "call" /\ variant = "PSQL" /\ response.kind = "list"
    /\ result' = standardise_list(response.items, home, away,
                                  home_short, away_short)
    /\ pc' = "returned"
    /\ UNCHANGED <<variant, home, away, home_short, away_short, response, pick,
                   second, oi_vars, api_vars, js_vars>>

\* to_database.py lines 309-328
StandardiseFuzzy ==
    /\ pc = "call" /\ variant = "to_database" /\ response.kind = "list"
    /\ \E p \in [Tokens(response.items) -> {home, away, S_X}] :
          /\ pick' = p
          /\ result' = standardise_fuzzy(response.items, home, away, p)
    /\ pc' = "returned"
    /\ UNCHANGED <<variant, home, away, home_short, away_short, response,
                   second, oi_vars, api_vars, js_vars>>

\* PSQL.py lines 458-470, to_database.py lines 330-342
StandardiseDict ==
    /\ pc = "call" /\ response.kind = "dict"
    /\ result' = <<standardise_dict(response.items[1])>>
    /\ pc' = "returned"
    /\ UNCHANGED <<variant, home, away, home_short, away_short, response, pick,
                   second, oi_vars, api_vars, js_vars>>

\* a value that is no list taken for one
StandardiseCoerces ==
    /\ pc = "call" /\ response.kind \notin {"list", "dict"}
    /\ result' = standardise_list(response.items, home, away,
                                  home_short, away_short)
    /\ pc' = "returned"
    /\ UNCHANGED <<variant, home, away, home_short, away_short, response, pick,
                   second, oi_vars, api_vars, js_vars>>

\* PSQL.py lines 472-473, to_database.py lines 344-345
StandardiseTypeError ==
    /\ pc = "call" /\ response.kind \notin {"list", "dict"}
    /\ pc' = "raised"
    /\ UNCHANGED <<sc_vars, oi_vars, api_vars, js_vars>>

\* PSQL.py lines 319-456, called again with the list it returned
StandardiseAgain ==
    /\ pc = "returned" /\ variant = "PSQL" /\ response.kind = "list"
    /\ second' = standardise_list(result, home, away, home_short, away_short)
    /\ pc' = "returned_again"
    /\ UNCHANGED <<variant, home, away, home_short, away_short, response, pick,
                   result, oi_vars, api_vars, js_vars>>

Next ==
    \/ StandardiseList
    \/ StandardiseFuzzy
    \/ StandardiseDict
    \/ StandardiseTypeError
    \/ StandardiseAgain

Spec == Init /\ [][Next]_vars

(***************************************************************************)
(* One call of odds_includes.                                              *)
(***************************************************************************)
InitOdds ==
    /\ variant = "PSQL"
    /\ home = << >> /\ away = << >> /\ home_short = << >> /\ away_short = << >>
    /\ response = [kind |-> "NoneType", items |-> << >>]
    /\ pick = << >>
    /\ result = << >>
    /\ second = << >>
    /\ pc = "odds"
    /\ markets \in RequestedMarkets
    /\ \/ fixtures = <<Fixture(<< >>)>>
       \/ \E m \in Markets : fixtures = <<Fixture(<<m>>)>>
    /\ rows = << >>
    /\ stored = << >>
    /\ NoClient

\* PSQL.py lines 221-293; rows keeps every fixture_odds_dict that was built
OddsIncludes ==
    /\ pc = "odds"
    /\ rows' = all_rows(fixtures)
    /\ stored' = to_psql_calls(odds_list(all_rows(fixtures), markets), T_EPL)
    /\ pc' = "stored"
    /\ UNCHANGED <<sc_vars, fixtures, markets, api_vars, js_vars>>

NextOdds == OddsIncludes

SpecOdds == InitOdds /\ [][NextOdds]_vars

(***************************************************************************)
(* The calls of make_request on one BaseAPI client.                        *)
(***************************************************************************)
\* lines 31-50: the client after __init__(api_key="foo")
InitAPI ==
    /\ variant = "PSQL"
    /\ home = << >> /\ away = << >> /\ home_short = << >> /\ away_short = << >>
    /\ response = [kind |-> "NoneType", items |-> << >>]
    /\ pick = << >> /\ result = << >> /\ second = << >>
    /\ fixtures = << >> /\ markets = << >> /\ rows = << >> /\ stored = << >>
    /\ initial_params = <<Item("api_token", PyStr("foo")), Item("tz", PyStr("UTC"))>>
    /\ timeout \in {None, PyInt(10)}
    /\ calls = 0
    /\ args = NoArgs
    /\ params = << >> /\ aliased = FALSE
    /\ gets = << >>
    /\ reply = NoResponse /\ replies = << >>
    /\ data = None /\ page = 0 /\ total_pages = 0
    /\ raised = NULL /\ returned = Absent
    /\ document = None
    /\ pc = "idle"

\* lines 202-203 and 249-250: one requests.get
Get(p) == [url |-> create_api_url(args.endpoint), params |-> p,
           timeout |-> timeout]

\* the call ends with an exception
Raise(e) ==
    /\ raised' = e
    /\ returned' = Absent
    /\ pc' = "done"

\* the call ends at lines 256-263
Finish(d) ==
    /\ raised' = finish(d).raised
    /\ returned' = finish(d).returned
    /\ pc' = "done"

\* lines 179-203: a call builds its parameters and sends the first GET
Request ==
    /\ pc \in {"idle", "done"}
    /\ calls < MaxCalls
    /\ \E a \in Args :
          LET b == build_params(initial_params, a)
          IN  /\ args' = a
              /\ params' = b.params
              /\ aliased' = b.aliased
              /\ initial_params' = IF b.aliased THEN b.params
                                   ELSE initial_params
              /\ gets' = <<[url |-> create_api_url(a.endpoint),
                            params |-> b.params, timeout |-> timeout]>>
    /\ calls' = calls + 1
    /\ reply' = NoResponse /\ replies' = << >>
    /\ data' = None /\ page' = 0 /\ total_pages' = 0
    /\ raised' = NULL /\ returned' = Absent
    /\ pc' = "sent"
    /\ UNCHANGED <<timeout, sc_vars, oi_vars, js_vars>>

\* lines 205-207: the first GET times out
TimedOut ==
    /\ pc = "sent"
    /\ timeout # None
    /\ Raise("SystemExit")
    /\ UNCHANGED <<initial_params, timeout, calls, args, params, aliased, gets,
                   reply, replies, data, page, total_pages, sc_vars, oi_vars, js_vars>>

\* lines 210-246 and 256-263: the first response arrives
Receive ==
    /\ pc = "sent"
    /\ \E resp \in FirstResponses :
          /\ reply' = resp
          /\ replies' = <<resp>>
          /\ IF ~resp.decodable
             THEN Raise("SystemExit") /\ UNCHANGED <<data, page, total_pages>>
             ELSE IF resp.error # Absent
                     /\ status_exception(resp.status_code) # NULL
             THEN /\ Raise(status_exception(resp.status_code))
                  /\ UNCHANGED <<data, page, total_pages>>
             ELSE IF ~truthy(resp.data)
             THEN /\ Raise("SystemExit")
                  /\ data' = None
                  /\ UNCHANGED <<page, total_pages>>
             ELSE /\ data' = resp.data
                  /\ IF paginated(resp) /\ total_pages_of(resp) >= 2
                     THEN /\ total_pages' = total_pages_of(resp)
                          /\ page' = 2
                          /\ pc' = "paging"
                          /\ UNCHANGED <<raised, returned>>
                     ELSE /\ Finish(resp.data)
                          /\ UNCHANGED <<page, total_pages>>
    /\ UNCHANGED <<initial_params, timeout, calls, args, params, aliased, gets,
                   sc_vars, oi_vars, js_vars>>

\* lines 247-263: the GET of the next page, and the end of the call after
\* the last one
GetPage ==
    /\ pc = "paging"
    /\ LET p == dict_set(params, "page", PyInt(page))
       IN  /\ params' = p
           /\ initial_params' = IF aliased THEN p ELSE initial_params
           /\ gets' = Append(gets, Get(p))
    /\ \/ /\ timeout # None
          /\ Raise("Timeout")
          /\ UNCHANGED <<reply, replies, data, page>>
       \/ \E resp \in PageResponses :
             /\ reply' = resp
             /\ replies' = Append(replies, resp)
             /\ IF ~resp.decodable
                THEN Raise("ValueError") /\ UNCHANGED <<data, page>>
                ELSE IF truthy(resp.data) /\ data.t # "list"
                THEN Raise("TypeError") /\ UNCHANGED <<data, page>>
                ELSE LET d == IF truthy(resp.data)
                              THEN PyList(data.v \o resp.data.v) ELSE data
                     IN  /\ data' = d
                         /\ page' = page + 1
                         /\ IF page = total_pages
                            THEN Finish(d)
                            ELSE pc' = "paging" /\ UNCHANGED <<raised, returned>>
    /\ UNCHANGED <<timeout, calls, args, aliased, total_pages, sc_vars, oi_vars, js_vars>>

NextAPI ==
    \/ Request
    \/ TimedOut
    \/ Receive
    \/ GetPage

SpecAPI == InitAPI /\ [][NextAPI]_vars

(***************************************************************************)
(* unnest_includes and BaseAPI._to_df on one document.                     *)
(***************************************************************************)
InitJSON ==
    /\ variant = "PSQL"
    /\ home = << >> /\ away = << >> /\ home_short = << >> /\ away_short = << >>
    /\ response = [kind |-> "NoneType", items |-> << >>]
    /\ pick = << >> /\ result = << >> /\ second = << >>
    /\ fixtures = << >> /\ markets = << >> /\ rows = << >> /\ stored = << >>
    /\ initial_params = << >> /\ timeout = None /\ calls = 0
    /\ args = NoArgs /\ params = << >> /\ aliased = FALSE /\ gets = << >>
    /\ reply = NoResponse /\ replies = << >>
    /\ data = None /\ page = 0 /\ total_pages = 0
    /\ raised = NULL /\ returned = Absent
    /\ document \in Documents
    /\ pc = "idle"

\* helper.py lines 51-65: unnest_includes(document)
UnnestIncludes ==
    /\ pc = "idle"
    /\ document.t = "dict"
    /\ returned' = unnest_includes(document)
    /\ pc' = "unnested"
    /\ UNCHANGED <<sc_vars, oi_vars, initial_params, timeout, calls, args,
                   params, aliased, gets, reply, replies, data, page,
                   total_pages, raised, js_vars>>

\* base.py lines 283-308: _to_df(document)
ToDF ==
    /\ pc = "idle"
    /\ raised' = to_df(document).raised
    /\ returned' = to_df(document).returned
    /\ pc' = IF to_df(document).raised = NULL THEN "framed" ELSE "raised"
    /\ UNCHANGED <<sc_vars, oi_vars, initial_params, timeout, calls, args,
                   params, aliased, gets, reply, replies, data, page,
                   total_pages, js_vars>>

NextJSON ==
    \/ UnnestIncludes
    \/ ToDF

SpecJSON == InitJSON /\ [][NextJSON]_vars

(***************************************************************************)
(* Properties of standardise_columns, checked under Spec.                  *)
(***************************************************************************)
ListReturned ==
    pc = "returned" /\ variant = "PSQL" /\ response.kind = "list"

Input == response.items

\* the entry of the returned list that is the input entry at position n
Out(n) == result[CHOOSE k \in 1..Len(result) : result[k].src = n]

\* the part of a returned label before the separator
OutToken(n) == split_first(Out(n).label, "/")

Piped == { n \in 1..Len(Input) : has_pipe(Input[n].label) }

InToken(n) == team_of(Input[n].label)

\* the token the resolution loop sees, after lines 344-350
PreToken(n) == team_of(home_draw_away(Input[n].label))

RelatedHome(t) == contains(home, t) \/ contains(t, home)

RelatedAway(t) == contains(away, t) \/ contains(t, away)

Related(t) == RelatedHome(t) \/ RelatedAway(t)

AllUpper(t) == upper(t) = t

\* no other '|' entry of the list has a token that is in a name or holds one
NoOtherRelated(n) ==
    \A m \in Piped \ {n} : ~Related(PreToken(m))

\* C1: of exactly two '|' entries, the one whose token is the home name
\* ends with the token "1" and the other one, whatever its token, with "2".
C1_TwoOutcomeInference ==
    (ListReturned /\ Cardinality(Piped) = 2) =>
        \A n \in Piped : \A m \in Piped \ {n} :
            InToken(n) = home => OutToken(n) = S_1 /\ OutToken(m) = S_2

\* C2: no label of the returned value, list or dict, holds a "|".
C2_NoPipe ==
    pc = "returned" =>
        \A k \in 1..Len(result) : ~contains(result[k].label, S_Pipe)

C2_Witness ==
    /\ pc = "returned"
    /\ \E n \in 1..Len(Input) :
          /\ has_pipe(Input[n].label)
          /\ contains(Out(n).label, S_Slash)

\* C3: no label of the list that is returned holds whitespace.
C3_NoWhitespace ==
    ListReturned =>
        \A k \in 1..Len(result) : ~contains(result[k].label, S_Space)

\* C4: a label that came in as "<team-token> | <outcome>" goes out, from
\* the list branch and from the dict branch, with "1", "X" or "2" before
\* the separator.
C4_NoRawToken ==
    (pc = "returned" /\ variant = "PSQL") =>
        \A n \in Piped : OutToken(n) \in {S_1, S_X, S_2}

\* C5 as stated: in every list, an all-uppercase token that equals the home
\* short code ends as "1", one that equals the away short code as "2".
C5_AcronymAnyList ==
    ListReturned =>
        \A n \in Piped :
            AllUpper(InToken(n)) =>
                /\ InToken(n) = home_short => OutToken(n) = S_1
                /\ InToken(n) = away_short => OutToken(n) = S_2

\* C5 amended: an all-uppercase token other than "X" that is not substring-
\* related to a name ends as "1" when it equals the home short code and
\* as "2" when it equals the away short code and not the home one,
\* provided no other '|' entry of the list is substring-related to a name.
C5_Acronym ==
    ListReturned =>
        \A n \in Piped :
            (/\ AllUpper(InToken(n)) /\ InToken(n) # S_X
             /\ ~Related(InToken(n))
             /\ NoOtherRelated(n)) =>
                /\ InToken(n) = home_short => OutToken(n) = S_1
                /\ (InToken(n) # home_short /\ InToken(n) = away_short)
                       => OutToken(n) = S_2

C5_Witness ==
    /\ ListReturned
    /\ Cardinality(Piped) = 2
    /\ \E n \in Piped :
          /\ AllUpper(InToken(n)) /\ ~Related(InToken(n)) /\ NoOtherRelated(n)
          /\ InToken(n) = home_short
          /\ OutToken(n) = S_1

\* C6 as stated: an all-uppercase token that is not substring-related to a
\* name and equals neither short code keeps its token, whatever the other
\* entries of the list are.
C6_UnknownAcronymAnyList ==
    ListReturned =>
        \A n \in Piped :
            (/\ AllUpper(InToken(n)) /\ ~Related(InToken(n))
             /\ InToken(n) \notin {home_short, away_short}) =>
                OutToken(n) = replace(InToken(n), S_Space, S_Empty)

\* C6 amended: such a token keeps its token (spaces removed) provided no
\* other '|' entry of the list is substring-related to a name.
C6_UnknownAcronym ==
    ListReturned =>
        \A n \in Piped :
            (/\ AllUpper(InToken(n)) /\ ~Related(InToken(n))
             /\ InToken(n) \notin {home_short, away_short}
             /\ NoOtherRelated(n)) =>
                OutToken(n) = replace(InToken(n), S_Space, S_Empty)

C6_Witness ==
    /\ ListReturned
    /\ Cardinality(Piped) = 2
    /\ \E n \in Piped :
          /\ AllUpper(InToken(n)) /\ ~Related(InToken(n))
          /\ InToken(n) \notin {home_short, away_short, S_X, S_1, S_2}
          /\ NoOtherRelated(n)
          /\ Out(n).steps = <<"acronym">>
          /\ OutToken(n) = InToken(n)

\* C7: an entry that reaches the edit-distance rule ends with the token "2"
\* when its token is at least as far from the home name as from the away
\* name, and with "1" otherwise.
C7_DistanceFallback ==
    ListReturned =>
        \A n \in Piped :
            Out(n).steps = <<"distance">> =>
                /\ PreToken(n) # S_X /\ ~Related(PreToken(n))
                /\ ~AllUpper(PreToken(n))
                /\ OutToken(n) =
                      IF levenshtein(PreToken(n), home)
                             >= levenshtein(PreToken(n), away)
                      THEN S_2 ELSE S_1

C7_Witness ==
    /\ ListReturned
    /\ \E n \in Piped :
          /\ Out(n).steps = <<"distance">>
          /\ levenshtein(PreToken(n), home) = levenshtein(PreToken(n), away)
          /\ OutToken(n) = S_2

\* the step the order X, home, away, acronym, two-word, distance gives a token
FirstMatch(t) ==
    IF t = S_X THEN "X"
    ELSE IF RelatedHome(t) THEN "home"
    ELSE IF RelatedAway(t) THEN "away"
    ELSE IF AllUpper(t) THEN "acronym"
    ELSE IF Len(split(t)) > 1
            /\ (two_word_match(t, home) \/ two_word_match(t, away))
    THEN "two_word"
    ELSE "distance"

Eliminations == {"elim_other", "elim_same"}

\* C8 as stated: every '|' entry is rewritten by exactly one step, the first
\* one whose condition holds for its token, and a token that is substring-
\* related to both names ends as "1".
C8_FirstMatchOnly ==
    ListReturned =>
        \A n \in Piped :
            /\ Out(n).steps = <<FirstMatch(PreToken(n))>>
            /\ (RelatedHome(PreToken(n)) /\ RelatedAway(PreToken(n)))
                   => OutToken(n) = S_1

\* C8 amended: every '|' entry is rewritten by exactly one step: by the
\* elimination loop of another entry whose token is substring-related to a
\* name, or else by the first step whose condition holds for its own
\* token; in that second case a token related to both names ends as "1".
C8_OneStep ==
    ListReturned =>
        \A n \in Piped :
            /\ Len(Out(n).steps) = 1
            /\ Out(n).steps[1] \in Eliminations =>
                  \E m \in Piped \ {n} :
                      PreToken(m) # S_X /\ Related(PreToken(m))
            /\ Out(n).steps[1] \notin Eliminations =>
                  /\ Out(n).steps[1] = FirstMatch(PreToken(n))
                  /\ (RelatedHome(PreToken(n)) /\ RelatedAway(PreToken(n)))
                         => OutToken(n) = S_1

C8_Witness ==
    /\ ListReturned
    /\ Cardinality(Piped) = 2
    /\ \E n \in Piped : \E m \in Piped \ {n} :
          /\ RelatedHome(PreToken(n)) /\ RelatedAway(PreToken(n))
          /\ Out(n).steps = <<"home">>
          /\ OutToken(n) = S_1
          /\ Out(m).steps = <<"elim_other">>

\* Home, Draw and Away all replaced
substitute_all(label) ==
    replace(replace(replace(label, S_Home, S_1), S_Draw, S_X), S_Away, S_2)

\* C9: in a label without "|" every one of the words Home, Draw, Away is
\* replaced, by "1", "X", "2".
C9_DirectSubstitution ==
    pc = "returned" =>
        \A n \in (1..Len(Input)) \ Piped :
            Out(n).label =
                IF response.kind = "list"
                THEN substitute_all(Input[n].label)
                ELSE final_label(substitute_all(Input[n].label))

(***************************************************************************)
(* Properties of odds_includes, checked under SpecOdds.                    *)
(***************************************************************************)
\* the number of rows built for the fixtures before the one at fi
RECURSIVE RowsBefore(_)
RowsBefore(fi) ==
    IF fi = 1 THEN 0 ELSE RowsBefore(fi - 1) + Len(fixtures[fi - 1].odds)

\* the fixture_odds_dict of market mi of fixture fi
RowOf(fi, mi) == rows[RowsBefore(fi) + mi]

\* the labels of a bookmaker after standardise_columns
Canonical(fixt, b) ==
    standardise_list(b.odds, fixt.localTeam.name, fixt.visitorTeam.name,
                     fixt.localTeam.short_code, fixt.visitorTeam.short_code)

NotYesNo(fixt, b) ==
    \E k \in 1..Len(b.odds) : Canonical(fixt, b)[k].label \notin {S_Yes, S_No}

starts_with(s, prefix) ==
    Len(s) >= Len(prefix) /\ SubSeq(s, 1, Len(prefix)) = prefix

ColumnsOf(row, b) ==
    { k \in 4..Len(row) : starts_with(row[k].key, b.name \o S_Underscore) }

RECURSIVE Without(_, _, _)
Without(fixt, bookmaker, acc) ==
    IF bookmaker = << >> THEN acc
    ELSE Without(fixt, Tail(bookmaker),
                 IF NotYesNo(fixt, Head(bookmaker)) THEN acc
                 ELSE Append(acc, Head(bookmaker)))

\* C10: in a market 976105 a bookmaker with a canonical label other than
\* Yes and No has no column in the row, a bookmaker with only Yes and No
\* has a column for each of its labels, and the row is the one the market
\* gives without the rejected bookmakers.
C10_BTTSFilter ==
    pc = "stored" =>
        \A fi \in 1..Len(fixtures) : \A mi \in 1..Len(fixtures[fi].odds) :
            LET fixt == fixtures[fi]
                market == fixt.odds[mi]
                row == RowOf(fi, mi)
            IN  market.id = BTTS =>
                  /\ \A bi \in 1..Len(market.bookmaker) :
                        LET b == market.bookmaker[bi]
                        IN  IF NotYesNo(fixt, b)
                            THEN ColumnsOf(row, b) = {}
                            ELSE \A k \in 1..Len(b.odds) :
                                    b.odds[k].total = NULL =>
                                      has_key(row, b.name \o S_Underscore
                                                   \o Canonical(fixt, b)[k].label)
                  /\ row = fixture_odds_dict(fixt,
                              [market EXCEPT !.bookmaker =
                                  Without(fixt, market.bookmaker, << >>)])

C10_Witness ==
    /\ pc = "stored"
    /\ \E fi \in 1..Len(fixtures) : \E mi \in 1..Len(fixtures[fi].odds) :
          LET fixt == fixtures[fi]
              market == fixt.odds[mi]
              row == RowOf(fi, mi)
          IN  /\ market.id = BTTS
              /\ Len(market.bookmaker) = 2
              /\ NotYesNo(fixt, market.bookmaker[1])
              /\ ~NotYesNo(fixt, market.bookmaker[2])
              /\ ColumnsOf(row, market.bookmaker[1]) = {}
              /\ ColumnsOf(row, market.bookmaker[2]) # {}
              /\ Len(stored) > 0

\* the key of the column an entry of bookmaker b is stored under
ColumnKey(b, e) ==
    b.name \o S_Underscore \o e.label
        \o (IF e.total = NULL THEN << >> ELSE e.total)

\* C11: in a market 12 an entry whose canonical label is neither Over nor
\* Under has no column in the row, and every Over or Under entry of the same
\* bookmaker whose total passes the half-line test has its column, whatever
\* else the bookmaker sent.
C11_OverUnderFilter ==
    pc = "stored" =>
        \A fi \in 1..Len(fixtures) : \A mi \in 1..Len(fixtures[fi].odds) :
            LET fixt == fixtures[fi]
                market == fixt.odds[mi]
                row == RowOf(fi, mi)
            IN  market.id = OverUnder =>
                  \A bi \in 1..Len(market.bookmaker) :
                      LET b == market.bookmaker[bi]
                          c == Canonical(fixt, b)
                      IN  \A k \in 1..Len(c) :
                            IF c[k].label \notin {S_Over, S_Under}
                            THEN ~has_key(row, ColumnKey(b, c[k]))
                            ELSE (c[k].total = NULL \/ c[k].total = T_25)
                                     => has_key(row, ColumnKey(b, c[k]))

C11_Witness ==
    /\ pc = "stored"
    /\ \E fi \in 1..Len(fixtures) : \E mi \in 1..Len(fixtures[fi].odds) :
          LET fixt == fixtures[fi]
              market == fixt.odds[mi]
              row == RowOf(fi, mi)
              b == market.bookmaker[1]
          IN  /\ market.id = OverUnder
              /\ Len(b.odds) = 2
              /\ b.odds[1].label = L_Exactly
              /\ b.odds[2].label = S_Under
              /\ ColumnsOf(row, b) # {}
              /\ has_key(row, b.name \o S_Underscore \o S_Under \o T_25)
              /\ ~has_key(row, b.name \o S_Underscore \o L_Exactly)
              /\ \E n \in 1..Len(stored) : stored[n].response = <<row>>

\* a label with a Yes/No part and a 1/X/2 part
ResultAndBTTS(label) ==
    /\ contains(label, S_Yes) \/ contains(label, S_No)
    /\ contains(label, S_1) \/ contains(label, S_X) \/ contains(label, S_2)

\* C12: in a market 976316 an entry has a column exactly when its canonical
\* label contains one of Yes, No and one of 1, X, 2; the other entries of the
\* bookmaker do not matter.
C12_ResultBTTSFilter ==
    pc = "stored" =>
        \A fi \in 1..Len(fixtures) : \A mi \in 1..Len(fixtures[fi].odds) :
            LET fixt == fixtures[fi]
                market == fixt.odds[mi]
                row == RowOf(fi, mi)
            IN  market.id = ResultBTTS =>
                  \A bi \in 1..Len(market.bookmaker) :
                      LET b == market.bookmaker[bi]
                          c == Canonical(fixt, b)
                      IN  \A k \in 1..Len(c) :
                            has_key(row, ColumnKey(b, c[k]))
                                <=> ResultAndBTTS(c[k].label)

C12_Witness ==
    /\ pc = "stored"
    /\ \E fi \in 1..Len(fixtures) : \E mi \in 1..Len(fixtures[fi].odds) :
          LET fixt == fixtures[fi]
              market == fixt.odds[mi]
              row == RowOf(fi, mi)
              b == market.bookmaker[1]
          IN  /\ market.id = ResultBTTS
              /\ Len(b.odds) = 2
              /\ b.odds[1].label = S_Yes
              /\ b.odds[2].label = L_ChelseaNo
              /\ ~has_key(row, b.name \o S_Underscore \o S_Yes)
              /\ has_key(row, b.name \o S_Underscore \o <<"2", "/", "N", "o">>)
              /\ Len(row) = 4
              /\ \E n \in 1..Len(stored) : stored[n].response = <<row>>

\* the entry e of bookmaker b is not removed by the filter of its market
PassedMarketFilters(fixt, market, b, e) ==
    /\ market.id = BTTS => ~NotYesNo(fixt, b)
    /\ market.id = OverUnder => e.label \in {S_Over, S_Under}
    /\ market.id = ResultBTTS => ResultAndBTTS(e.label)

\* the text after the decimal point of a total is "5"
FractionIsHalf(total) ==
    \E n \in 1..Len(total) :
        /\ total[n] = "."
        /\ \A m \in 1..(n - 1) : total[m] # "."
        /\ SubSeq(total, n + 1, Len(total)) = <<"5">>

\* C13: an entry that passed the filter of its market has a column, keyed
\* with its total, exactly when the total has the fractional part .5, and
\* an entry with a null total always has a column keyed without a total.
C13_HalfLine ==
    pc = "stored" =>
        \A fi \in 1..Len(fixtures) : \A mi \in 1..Len(fixtures[fi].odds) :
            LET fixt == fixtures[fi]
                market == fixt.odds[mi]
                row == RowOf(fi, mi)
            IN  \A bi \in 1..Len(market.bookmaker) :
                    LET b == market.bookmaker[bi]
                        c == Canonical(fixt, b)
                    IN  \A k \in 1..Len(c) :
                          PassedMarketFilters(fixt, market, b, c[k]) =>
                              IF c[k].total = NULL
                              THEN has_key(row, b.name \o S_Underscore
                                                \o c[k].label)
                              ELSE has_key(row, b.name \o S_Underscore
                                                \o c[k].label \o c[k].total)
                                       <=> FractionIsHalf(c[k].total)

C13_Witness ==
    /\ pc = "stored"
    /\ \E fi \in 1..Len(fixtures) : \E mi \in 1..Len(fixtures[fi].odds) :
          LET fixt == fixtures[fi]
              market == fixt.odds[mi]
              row == RowOf(fi, mi)
              b == market.bookmaker[1]
          IN  /\ market.id = OverUnder
              /\ Len(b.odds) = 2
              /\ b.odds[1].label = S_Over /\ b.odds[1].total = T_20
              /\ b.odds[2].label = S_Over /\ b.odds[2].total = T_25
              /\ ~has_key(row, b.name \o S_Underscore \o S_Over \o T_20)
              /\ has_key(row, b.name \o S_Underscore \o S_Over \o T_25)
              /\ dict_get(row, b.name \o S_Underscore \o S_Over \o T_25)
                     = b.odds[2].value

\* the entry e of bookmaker b writes a column
Survives(fixt, market, b, e) ==
    /\ PassedMarketFilters(fixt, market, b, e)
    /\ e.total = NULL \/ FractionIsHalf(e.total)

\* C14: when surviving entries of one bookmaker write the same key, the row
\* holds the value of the one that is last in the odds list as the provider
\* sent it (src is the position in that list).
C14_LaterOverwrites ==
    pc = "stored" =>
        \A fi \in 1..Len(fixtures) : \A mi \in 1..Len(fixtures[fi].odds) :
            LET fixt == fixtures[fi]
                market == fixt.odds[mi]
                row == RowOf(fi, mi)
            IN  \A bi \in 1..Len(market.bookmaker) :
                    LET b == market.bookmaker[bi]
                        c == Canonical(fixt, b)
                    IN  \A k \in 1..Len(c) :
                          Survives(fixt, market, b, c[k]) =>
                            LET same == { j \in 1..Len(c) :
                                            /\ Survives(fixt, market, b, c[j])
                                            /\ ColumnKey(b, c[j])
                                                   = ColumnKey(b, c[k]) }
                                last == CHOOSE j \in same :
                                            \A i \in same : c[i].src <= c[j].src
                            IN  dict_get(row, ColumnKey(b, c[k])) = c[last].value

\* a row holds a column besides id, market_id and market
HasOddsColumn(row) ==
    \E n \in 1..Len(row) : row[n].key \notin {K_id, K_market_id, K_market}

\* C15: every row handed to to_psql holds a column besides id, market_id
\* and market, and a requested market none of whose rows holds one gets no
\* call of to_psql.
C15_EmptyRowsDropped ==
    pc = "stored" =>
        /\ \A n \in 1..Len(stored) :
              /\ stored[n].response # << >>
              /\ \A k \in 1..Len(stored[n].response) :
                    HasOddsColumn(stored[n].response[k])
        /\ \A p \in 1..Len(markets) :
              (\A k \in 1..Len(rows) :
                    dict_get(rows[k], K_market_id) = markets[p]
                        => ~HasOddsColumn(rows[k]))
                 => \A n \in 1..Len(stored) : \A k \in 1..Len(stored[n].response) :
                       dict_get(stored[n].response[k], K_market_id) # markets[p]

C15_Witness ==
    /\ pc = "stored"
    /\ Len(rows) = 1
    /\ ~HasOddsColumn(rows[1])
    /\ Len(fixtures[1].odds[1].bookmaker) = 2
    /\ \E p \in 1..Len(markets) : markets[p] = dict_get(rows[1], K_market_id)
    /\ stored = << >>

\* the places (call, position) where to_psql received the row of fixture id
\* and market market_id
Handed(id, market_id) ==
    { c \in (1..Len(stored)) \X (1..Len(rows)) :
        /\ c[2] <= Len(stored[c[1]].response)
        /\ dict_get(stored[c[1]].response[c[2]], K_id) = id
        /\ dict_get(stored[c[1]].response[c[2]], K_market_id) = market_id }

\* C16: each fixture/market row with surviving odds whose market was
\* requested is handed to to_psql exactly once.
C16_OneRowPerMarket ==
    pc = "stored" =>
        \A k \in 1..Len(rows) :
            (/\ HasOddsColumn(rows[k])
             /\ \E p \in 1..Len(markets) :
                   markets[p] = dict_get(rows[k], K_market_id))
                => Cardinality(Handed(dict_get(rows[k], K_id),
                                      dict_get(rows[k], K_market_id))) = 1

(***************************************************************************)
(* The remaining properties of standardise_columns, checked under Spec.    *)
(***************************************************************************)
\* C17: with a response that is neither a list nor a dict the only step
\* standardise_columns takes is to raise TypeError, and that step changes
\* neither the response nor any result.
C17_TypeError ==
    [][response.kind \notin {"list", "dict"}
          => (pc' = "raised" /\ UNCHANGED <<sc_vars, oi_vars, api_vars>>)]_vars

C17_Witness ==
    /\ pc = "raised"
    /\ response.kind = "tuple"
    /\ has_pipe(response.items[1].label)
    /\ result = << >>

CanonicalParts == {S_1, S_X, S_2, S_Yes, S_No, S_Over, S_Under}

\* one of the canonical words or several of them joined by "/"
IsCanonical(label) ==
    LET parts == split_on(label, "/")
    IN  \A n \in 1..Len(parts) : parts[n] \in CanonicalParts

\* C18: when every label of a list is canonical, standardise_columns
\* applied to that list returns it with every label unchanged.
C18_Idempotent ==
    pc = "returned_again" =>
        ((\A n \in 1..Len(result) : IsCanonical(result[n].label))
            => /\ Len(second) = Len(result)
               /\ \A n \in 1..Len(result) :
                     second[n].label = result[n].label)

C18_Witness ==
    /\ pc = "returned_again"
    /\ Len(result) = 2
    /\ \A n \in 1..Len(result) : IsCanonical(result[n].label)
    /\ \E n \in 1..Len(result) : contains(result[n].label, S_Slash)
    /\ \E n \in 1..Len(result) : result[n].label = S_Over
    /\ \A n \in 1..Len(result) : second[n].label = result[n].label

(***************************************************************************)
(* The worked example of odds_includes, checked under SpecOdds.            *)
(***************************************************************************)
L_2No == <<"2", "/", "N", "o">>

\* C19: for Manchester United against Chelsea, a bookmaker of market 976316
\* sending 'Manchester United | Yes' and 'Chelsea | No' gets the canonical
\* labels '1/Yes' and '2/No', and the row holds both columns with the
\* values of those entries.
C19_WorkedExample ==
    pc = "stored" =>
        \A fi \in 1..Len(fixtures) : \A mi \in 1..Len(fixtures[fi].odds) :
            LET fixt == fixtures[fi]
                market == fixt.odds[mi]
                row == RowOf(fi, mi)
            IN  (/\ fixt.localTeam.name = N_ManUtd
                 /\ fixt.visitorTeam.name = N_Chelsea
                 /\ market.id = ResultBTTS) =>
                  \A bi \in 1..Len(market.bookmaker) :
                      LET b == market.bookmaker[bi]
                          c == Canonical(fixt, b)
                      IN  (/\ Len(b.odds) = 2
                           /\ { b.odds[1].label, b.odds[2].label }
                                  = { L_ManUtdYes, L_ChelseaNo }) =>
                            /\ \A k \in 1..2 :
                                  c[k].label =
                                      IF b.odds[c[k].src].label = L_ManUtdYes
                                      THEN L_1Yes ELSE L_2No
                            /\ \A k \in 1..2 :
                                  /\ has_key(row, b.name \o S_Underscore
                                                   \o c[k].label)
                                  /\ dict_get(row, b.name \o S_Underscore
                                                    \o c[k].label)
                                         = b.odds[c[k].src].value
                            /\ Cardinality(ColumnsOf(row, b)) = 2

C19_Witness ==
    /\ pc = "stored"
    /\ Len(fixtures) = 1 /\ Len(fixtures[1].odds) = 1
    /\ fixtures[1].odds[1].id = ResultBTTS
    /\ Len(fixtures[1].odds[1].bookmaker) = 1
    /\ LET b == fixtures[1].odds[1].bookmaker[1]
       IN  /\ Len(b.odds) = 2
           /\ b.odds[1].label = L_ManUtdYes
           /\ b.odds[2].label = L_ChelseaNo
           /\ has_key(rows[1], b.name \o S_Underscore \o L_1Yes)
           /\ has_key(rows[1], b.name \o S_Underscore \o L_2No)
           /\ Len(rows[1]) = 5
    /\ \E n \in 1..Len(stored) : stored[n].response = <<rows[1]>>

(***************************************************************************)
(* Properties of BaseAPI.make_request, checked under SpecAPI.              *)
(***************************************************************************)
\* the exception documented for a status code
DocumentedException(status_code) ==
    CASE status_code = 400 -> "BadRequest"
      [] status_code = 401 -> "UnathourizedRequest"
      [] status_code = 403 -> "APIPermissionError"
      [] status_code = 404 -> "APINotFound"
      [] status_code = 429 -> "TooManyRequests"
      [] status_code \in {500, 502, 503, 504} -> "ServerErrors"
      [] OTHER -> NULL

\* C20: when the call has ended and the last response it received had
\* 'error' in its JSON body and one of the documented status codes, the call
\* raised the exception documented for that code and returned nothing.
C20_ErrorMapping ==
    (/\ pc = "done"
     /\ reply.decodable
     /\ reply.error # Absent
     /\ DocumentedException(reply.status_code) # NULL)
        => /\ raised = DocumentedException(reply.status_code)
           /\ returned = Absent

\* what holds of the first response of a call
C20_FirstResponseOnly ==
    (/\ pc = "done"
     /\ Len(gets) = 1
     /\ reply.decodable
     /\ reply.error # Absent
     /\ DocumentedException(reply.status_code) # NULL)
        => /\ raised = DocumentedException(reply.status_code)
           /\ returned = Absent

(***************************************************************************)
(* C21 - C23: the successful call, the GET, and unnest_includes.           *)
(***************************************************************************)
\* a dict with the single key 'data'
IsInclude(x) == x.t = "dict" /\ Len(x.v) = 1 /\ x.v[1].key = "data"

\* out is dictionary with its includes unnested: the same keys, an include
\* replaced by the content of its 'data', every other value kept
RECURSIVE IsUnnested(_, _)
RECURSIVE IsContent(_, _)
IsUnnested(out, dictionary) ==
    /\ out.t = "dict"
    /\ Len(out.v) = Len(dictionary.v)
    /\ \A n \in 1..Len(dictionary.v) :
          /\ out.v[n].key = dictionary.v[n].key
          /\ IF IsInclude(dictionary.v[n].value)
             THEN IsContent(out.v[n].value, dictionary.v[n].value.v[1].value)
             ELSE out.v[n].value = dictionary.v[n].value

\* out is the content of a 'data': a dict unnested, a list unnested element
\* by element, anything else as it is
IsContent(out, content) ==
    IF content.t = "dict" THEN IsUnnested(out, content)
    ELSE IF content.t = "list"
    THEN /\ out.t = "list"
         /\ Len(out.v) = Len(content.v)
         /\ \A i \in 1..Len(content.v) :
               IF content.v[i].t = "dict"
               THEN IsUnnested(out.v[i], content.v[i])
               ELSE out.v[i] = content.v[i]
    ELSE out = content

\* out is the 'data' of a response with its includes unnested
IsUnnestedData(out, content) ==
    IF content.t = "dict" THEN IsUnnested(out, content)
    ELSE /\ out.t = "list"
         /\ Len(out.v) = Len(content.v)
         /\ \A i \in 1..Len(content.v) : IsUnnested(out.v[i], content.v[i])

\* a decoded response without 'error' and without pagination metadata whose
\* 'data' is a non-empty dict or list of dicts
PlainResponse(resp) ==
    /\ resp.decodable
    /\ resp.error = Absent
    /\ ~paginated(resp)
    /\ resp.data.t \in {"dict", "list"}
    /\ resp.data.v # << >>

\* C21: a call answered by a response without 'error', without pagination
\* metadata and with a non-empty 'data' has issued one GET, has decoded one
\* body, and returns the 'data' with its includes unnested.
C21_SuccessfulCall ==
    (pc = "done" /\ replies # << >> /\ PlainResponse(replies[1]))
        => /\ Len(gets) = 1
           /\ Len(replies) = 1
           /\ raised = NULL
           /\ IsUnnestedData(returned, replies[1].data)

C21_Witness ==
    /\ pc = "done"
    /\ replies = <<Response(200, TRUE, Absent, D_fixture, Absent)>>
    /\ Len(gets) = 1
    /\ returned = PyDict(<<Item("id", PyInt(1)),
                           Item("season", PyDict(<<Item("id", PyInt(2))>>))>>)

\* the URL and the 'include' the spec gives for the arguments of the call
ExpectedPath ==
    CASE args.endpoint = PyStr("foo") -> "foo"
      [] args.endpoint = PyList(<<"fixtures", "between">>) -> "fixtures/between"
      [] OTHER -> ""

ExpectedInclude ==
    CASE args.includes = PyStr("foo") -> "foo"
      [] args.includes = PyList(<<"odds", "lineup">>) -> "odds,lineup"
      [] OTHER -> ""

\* C22: every GET of a call goes to the base URL followed by the endpoint,
\* with the timeout of the client, and with 'include' equal to the includes
\* the call was given: the joined includes when it was given some, no
\* 'include' when it was given none.
C22_EveryGet ==
    \A n \in 1..Len(gets) :
        /\ gets[n].url = "https://soccer.sportmonks.com/api/v2.0/"
                            \o ExpectedPath
        /\ gets[n].timeout = timeout
        /\ IF args.includes = None
           THEN ~has_key(gets[n].params, "include")
           ELSE /\ has_key(gets[n].params, "include")
                /\ dict_get(gets[n].params, "include") = PyStr(ExpectedInclude)

\* what holds: the URL and the timeout of every GET, and the 'include' of
\* the GETs of a call that was given includes
C22_IncludesPassed ==
    \A n \in 1..Len(gets) :
        /\ gets[n].url = "https://soccer.sportmonks.com/api/v2.0/"
                            \o ExpectedPath
        /\ gets[n].timeout = timeout
        /\ args.includes # None
              => /\ has_key(gets[n].params, "include")
                 /\ dict_get(gets[n].params, "include") = PyStr(ExpectedInclude)

\* C23: unnest_includes returns a dict with the keys of its input in which
\* an include maps to the content of its 'data', unnested recursively when
\* it is a dict and element by element when it is a list, and every other
\* key maps to its original value.
C23_Unnest ==
    pc = "unnested" => IsUnnested(returned, document)

\* an include inside a dict of a list that is itself included
C23_Witness ==
    /\ pc = "unnested"
    /\ document =
          PyDict(<<Item("hi", Wrap(PyList(<<PyDict(<<Item("id",
                                              Wrap(PyInt(1)))>>)>>)))>>)
    /\ returned =
          PyDict(<<Item("hi", PyList(<<PyDict(<<Item("id", PyInt(1))>>)>>))>>)

(***************************************************************************)
(* C24: the structural step for tokens of more than one word.              *)
(***************************************************************************)
\* the test of a token of several words against a name of several words:
\* the first word of the token is in the first word of the name, and the
\* second words start with the same letter
StructuralMatch(t, name) ==
    /\ Len(split(name)) > 1
    /\ contains(split(name)[1], split(t)[1])
    /\ split(t)[2][1] = split(name)[2][1]

\* the entry at n is rewritten by its own iteration, and its token passes
\* the X, home, away and acronym steps and has more than one word
ReachesStructural(n) ==
    /\ Len(Out(n).steps) = 1
    /\ Out(n).steps[1] \notin Eliminations
    /\ PreToken(n) # S_X
    /\ ~Related(PreToken(n))
    /\ ~AllUpper(PreToken(n))
    /\ Len(split(PreToken(n))) > 1

\* C24: a token of more than one word that reaches the structural step ends
\* as "1" when it matches a home name of several words, else as "2" when it
\* matches an away name of several words, and else as the edit distance
\* decides.
C24_StructuralMatch ==
    ListReturned =>
        \A n \in Piped :
            ReachesStructural(n) =>
                OutToken(n) =
                    IF StructuralMatch(PreToken(n), home) THEN S_1
                    ELSE IF StructuralMatch(PreToken(n), away) THEN S_2
                    ELSE IF levenshtein(PreToken(n), home)
                               >= levenshtein(PreToken(n), away)
                    THEN S_2 ELSE S_1

\* a token that matches both names ends as "1"
C24_Witness ==
    /\ ListReturned
    /\ \E n \in Piped :
          /\ ReachesStructural(n)
          /\ StructuralMatch(PreToken(n), home)
          /\ StructuralMatch(PreToken(n), away)
          /\ Out(n).steps = <<"two_word">>
          /\ OutToken(n) = S_1

C24_WitnessAway ==
    /\ ListReturned
    /\ \E n \in Piped :
          /\ ReachesStructural(n)
          /\ ~StructuralMatch(PreToken(n), home)
          /\ StructuralMatch(PreToken(n), away)
          /\ OutToken(n) = S_2

C24_WitnessNeither ==
    /\ ListReturned
    /\ \E n \in Piped :
          /\ ReachesStructural(n)
          /\ ~StructuralMatch(PreToken(n), home)
          /\ ~StructuralMatch(PreToken(n), away)
          /\ Out(n).steps = <<"distance">>

(***************************************************************************)
(* C25 - C26: pagination and empty payloads.                               *)
(***************************************************************************)
\* the 'page' a GET was sent with
PageOf(get) == dict_get(get.params, "page")

\* the data of the responses received so far, in the order of the GETs: the
\* 'data' of the first one followed by the elements of every later 'data'
RECURSIVE PagesData(_)
PagesData(rs) ==
    IF Len(rs) = 1 THEN rs[1].data
    ELSE LET before == PagesData(SubSeq(rs, 1, Len(rs) - 1))
             last == rs[Len(rs)]
         IN  IF last.decodable /\ last.data.t = "list" /\ last.data.v # << >>
             THEN PyList(before.v \o last.data.v)
             ELSE before

EmptyPayload(x) ==
    x \in { Absent, None, PyList(<< >>), PyDict(<< >>), PyStr(""), PyInt(0) }

\* C26: a call never returns a missing or empty payload, and a call whose
\* decoded response has no 'data' or an empty one, and for which no mapped
\* HTTP error was raised, ends with SystemExit and returns nothing.
C26_NoEmptyPayload ==
    pc = "done" =>
        /\ raised = NULL => ~EmptyPayload(returned)
        /\ (/\ replies # << >>
            /\ replies[1].decodable
            /\ EmptyPayload(replies[1].data)
            /\ ~(/\ replies[1].error # Absent
                 /\ DocumentedException(replies[1].status_code) # NULL))
              => (raised = "SystemExit" /\ returned = Absent)

\* an empty list as 'data' of a 200 response without 'error'
C26_Witness ==
    /\ pc = "done"
    /\ replies = <<Response(200, TRUE, Absent, PyList(<< >>), Absent)>>
    /\ raised = "SystemExit"
    /\ returned = Absent

(***************************************************************************)
(* C27: BaseAPI._to_df, checked under SpecJSON.                            *)
(***************************************************************************)
\* some value of the dict, at any depth of dicts, is a list
RECURSIVE HoldsList(_)
HoldsList(dictionary) ==
    \E n \in 1..Len(dictionary.v) :
        \/ dictionary.v[n].value.t = "list"
        \/ /\ dictionary.v[n].value.t = "dict"
           /\ HoldsList(dictionary.v[n].value)

\* the document, or a dict of the list it is, holds a list
DocumentHoldsList ==
    IF document.t = "dict" THEN HoldsList(document)
    ELSE \E i \in 1..Len(document.v) : HoldsList(document.v[i])

\* C27: _to_df raises NotJSONNormalizable when the response, or a dict of
\* the list it is, holds a list as a value at any depth of dicts, and builds
\* the frame only when no value at any depth is a list.
C27_NotNormalizable ==
    pc \in {"framed", "raised"} =>
        IF DocumentHoldsList
        THEN pc = "raised" /\ raised = "NotJSONNormalizable"
        ELSE pc = "framed" /\ returned.t = "DataFrame"

\* what the code does: only the values of the dict itself are looked at
C27_TopLevelOnly ==
    pc \in {"framed", "raised"} =>
        LET top(d) == \E n \in 1..Len(d.v) : d.v[n].value.t = "list"
            seen == IF document.t = "dict" THEN top(document)
                    ELSE \E i \in 1..Len(document.v) : top(document.v[i])
        IN  IF seen
            THEN pc = "raised" /\ raised = "NotJSONNormalizable"
            ELSE pc = "framed" /\ returned.t = "DataFrame"

(***************************************************************************)
(* C28: the parameters of a call and self.initial_params.                  *)
(***************************************************************************)
\* self.initial_params as __init__ builds it
ClientParams == <<Item("api_token", PyStr("foo")), Item("tz", PyStr("UTC"))>>

\* C28: no call changes self.initial_params, the first GET of a call that
\* passes no 'page' is sent with page = 1, and the GETs of a call that
\* passes no includes carry no 'include', whatever calls came before.
C28_CallsIndependent ==
    /\ initial_params = ClientParams
    /\ gets # << >> =>
          /\ args.params = None => PageOf(gets[1]) = PyInt(1)
          /\ args.includes = None =>
                \A n \in 1..Len(gets) : ~has_key(gets[n].params, "include")

\* a call with no 'page' whose first GET asks for page 2
C28_StalePage ==
    /\ calls = 2
    /\ args.params = None
    /\ gets # << >>
    /\ PageOf(gets[1]) = PyInt(2)

(***************************************************************************)
(* C29 - C30: the order of the entries, and what a call changes.           *)
(***************************************************************************)
\* the orders the entries of the input can be handed over in
Orders ==
    { q \in [1..Len(Input) -> 1..Len(Input)] :
        \A a, b \in 1..Len(Input) : q[a] = q[b] => a = b }

\* the list standardise_columns returns for the input in the order q
Reordered(q) ==
    standardise_list([n \in 1..Len(Input) |-> Input[q[n]]],
                     home, away, home_short, away_short)

\* C29: in whatever order the entries of the list are handed over, every
\* entry ends with the same label.
C29_OrderIndependent ==
    ListReturned =>
        \A q \in Orders :
            \A k \in 1..Len(Input) :
                Reordered(q)[k].label = Out(Reordered(q)[k].src).label

\* the positions of the returned list that hold the input entry at n
Returned(n) == { k \in 1..Len(result) : result[k].src = n }

\* C30: the list standardise_columns returns holds every entry of the input
\* once and no other entry, with the 'value' and the 'total' it had.
C30_OnlyLabels ==
    (pc = "returned" /\ response.kind = "list") =>
        /\ Len(result) = Len(Input)
        /\ \A n \in 1..Len(Input) :
              /\ Cardinality(Returned(n)) = 1
              /\ \A k \in Returned(n) :
                    /\ result[k].value = Input[n].value
                    /\ result[k].total = Input[n].total

\* two entries come back in the other order, the label of one rewritten,
\* the total of the other kept
C30_Witness ==
    /\ ListReturned
    /\ Len(Input) = 2
    /\ result[1].src = 2 /\ result[2].src = 1
    /\ result[1].label # Input[2].label
    /\ Input[1].total # NULL
    /\ result[2].total = Input[1].total

====
